---- MODULE Spec2Model ----
(***************************************************************************)
(* Model of lab_5_scraper/scraper.py: the configuration gate (Config),     *)
(* link discovery (Crawler.find_articles), article extraction              *)
(* (HTMLParser.parse) and the entry point main() that drives them.         *)
(*                                                                         *)
(* Python strings are sequences of characters; Python values whose type    *)
(* matters (the fields of the configuration file) are records tagged with  *)
(* their type.  A character is a one-character string; a character outside *)
(* printable ASCII may also be written as the string of its code point,    *)
(* "U+00A0", "U+0662", which is the only spelling of the characters a      *)
(* TLA+ string cannot hold.                                                *)
(***************************************************************************)
EXTENDS Integers, Sequences, FiniteSets, TLC

VARIABLES
    pc,        \* position of main(): prepare, config, seeds, headers, articles, done, failed
    assets,    \* state of the ASSETS_PATH directory: absent, old, fresh
    config,    \* the values the configuration file holds (the Config object's fields)
    urls,      \* Crawler.urls
    seedIdx,   \* index of the seed the outer loop of find_articles is at
    headers,   \* the h3 elements of the current listing the inner loop has not visited yet
    idx,       \* index (from 1) of the url the loop of main() is at
    saved,     \* the Article objects handed to to_raw / to_meta, in call order
    trace,     \* every I/O operation performed so far, in order
    lastFetch, \* the outcome of the latest make_request call and what it was for
    error      \* name of the exception that ended the run, or "none"

vars == <<pc, assets, config, urls, seedIdx, headers, idx, saved, trace, lastFetch, error>>

----------------------------------------------------------------------------
(* Bounds of the model *)

MaxHeadings == 2

----------------------------------------------------------------------------
(* Strings *)

RECURSIVE SeqsUpTo(_, _)
SeqsUpTo(S, n) ==
    IF n = 0 THEN {<<>>}
    ELSE LET shorter == SeqsUpTo(S, n - 1)
         IN  shorter \cup {Append(s, x) : s \in {t \in shorter : Len(t) = n - 1}, x \in S}

StartsWith(s, p) == Len(s) >= Len(p) /\ SubSeq(s, 1, Len(p)) = p

HTTP == <<"h", "t", "t", "p", ":", "/", "/">>

HTTPS == <<"h", "t", "t", "p", "s", ":", "/", "/">>

\* str.startswith(('http://', 'https://'))
StartsWithHttp(s) == StartsWith(s, HTTP) \/ StartsWith(s, HTTPS)

\* str.split(sep) for a one-character separator
RECURSIVE SplitFrom(_, _, _, _)
SplitFrom(s, sep, i, cur) ==
    IF i > Len(s) THEN <<cur>>
    ELSE IF s[i] = sep THEN <<cur>> \o SplitFrom(s, sep, i + 1, <<>>)
    ELSE SplitFrom(s, sep, i + 1, Append(cur, s[i]))

Split(s, sep) == SplitFrom(s, sep, 1, <<>>)

\* The characters str.isspace() holds for, which str.strip() and int() remove
WhiteSpace ==
    {"\t", "\n", "", "U+000B", "\f", "\r", "", "U+001C", "", "U+001D", "",
     "U+001E", "", "U+001F", " ", "", "U+0085", " ", "U+00A0", " ", "U+1680",
     "U+2000", "U+2001", "U+2002", "U+2003", "U+2004", "U+2005", "U+2006", "U+2007",
     "U+2008", "U+2009", "U+200A", "U+2028", "U+2029", "U+202F", "U+205F", "U+3000"}

IsSpace(c) == c \in WhiteSpace

RECURSIVE LStrip(_)
LStrip(s) == IF s # <<>> /\ IsSpace(Head(s)) THEN LStrip(Tail(s)) ELSE s

RECURSIVE RStrip(_)
RStrip(s) ==
    IF s # <<>> /\ IsSpace(s[Len(s)]) THEN RStrip(SubSeq(s, 1, Len(s) - 1)) ELSE s

\* str.strip()
Strip(s) == RStrip(LStrip(s))

\* sep.join(parts)
RECURSIVE Join(_, _)
Join(sep, parts) ==
    IF parts = <<>> THEN <<>>
    ELSE IF Len(parts) = 1 THEN parts[1]
    ELSE parts[1] \o sep \o Join(sep, Tail(parts))

Range(s) == {s[i] : i \in DOMAIN s}

----------------------------------------------------------------------------
(* Python values of the configuration file *)

PyInt(n) == [kind |-> "int", num |-> n, seq |-> <<>>]

PyBool(b) == [kind |-> "bool", num |-> IF b THEN 1 ELSE 0, seq |-> <<>>]

PyStr(s) == [kind |-> "str", num |-> 0, seq |-> s]

PyList(l) == [kind |-> "list", num |-> 0, seq |-> l]

PyDict == [kind |-> "dict", num |-> 0, seq |-> <<>>]

PyNone == [kind |-> "NoneType", num |-> 0, seq |-> <<>>]

\* isinstance(v, int): bool is a subclass of int
IsInstanceInt(v) == v.kind \in {"int", "bool"}

IsInstanceStr(v) == v.kind = "str"

IsInstanceList(v) == v.kind = "list"

IsInstanceDict(v) == v.kind = "dict"

IsInstanceBool(v) == v.kind = "bool"

----------------------------------------------------------------------------
(* Config._validate_config_content *)

MaxTotalArticles == 150

TimeoutLimit == 60

\* lines 102-106: the seed list is a list and every entry is an http(s) string
SeedUrlsError(v) ==
    IF ~IsInstanceList(v) THEN "IncorrectSeedURLError"
    ELSE IF \E i \in DOMAIN v.seq :
                ~IsInstanceStr(v.seq[i]) \/ ~StartsWithHttp(v.seq[i].seq)
         THEN "IncorrectSeedURLError"
    ELSE "ok"

NumArticlesError_AcceptsZero(v) ==
    IF ~IsInstanceInt(v) \/ v.num < 0 THEN "IncorrectNumberOfArticlesError"
    ELSE IF v.num > MaxTotalArticles THEN "NumberOfArticlesOutOfRangeError"
    ELSE "ok"

\* lines 108-111
NumArticlesError(v) ==
    IF ~IsInstanceInt(v) \/ v.num <= 0 THEN "IncorrectNumberOfArticlesError"
    ELSE IF v.num > MaxTotalArticles THEN "NumberOfArticlesOutOfRangeError"
    ELSE "ok"

\* lines 112-113
HeadersError(v) == IF ~IsInstanceDict(v) THEN "IncorrectHeadersError" ELSE "ok"

\* lines 114-115
EncodingError(v) == IF ~IsInstanceStr(v) THEN "IncorrectEncodingError" ELSE "ok"

\* lines 116-117
TimeoutError(v) ==
    IF ~IsInstanceInt(v) \/ ~(0 < v.num /\ v.num < TimeoutLimit)
    THEN "IncorrectTimeoutError" ELSE "ok"

\* lines 118-120
VerifyError(verify, headless) ==
    IF ~IsInstanceBool(verify) \/ ~IsInstanceBool(headless)
    THEN "IncorrectVerifyError" ELSE "ok"

\* The checks in the order of the code; the first one that fails raises.
ValidateConfigContent(c) ==
    IF SeedUrlsError(c.seed_urls) # "ok" THEN SeedUrlsError(c.seed_urls)
    ELSE IF NumArticlesError(c.total_articles) # "ok" THEN NumArticlesError(c.total_articles)
    ELSE IF HeadersError(c.headers) # "ok" THEN HeadersError(c.headers)
    ELSE IF EncodingError(c.encoding) # "ok" THEN EncodingError(c.encoding)
    ELSE IF TimeoutError(c.timeout) # "ok" THEN TimeoutError(c.timeout)
    ELSE VerifyError(c.should_verify_certificate, c.headless_mode)

ConfigErrors ==
    {"IncorrectSeedURLError", "IncorrectNumberOfArticlesError",
     "NumberOfArticlesOutOfRangeError", "IncorrectHeadersError",
     "IncorrectEncodingError", "IncorrectTimeoutError", "IncorrectVerifyError"}

\* Config.get_seed_urls, as a sequence of strings (of a validated configuration)
GetSeedUrls(c) == [i \in DOMAIN c.seed_urls.seq |-> c.seed_urls.seq[i].seq]

\* Config.get_num_articles
GetNumArticles(c) == c.total_articles.num

----------------------------------------------------------------------------
(* Crawler._extract_url *)

\* raw_href is the value of the anchor's href attribute, seed_list the configured seeds
ExtractUrl(raw_href, seed_list) ==
    LET first == IF IsInstanceList(raw_href) THEN raw_href.seq[1] ELSE raw_href
    IN  IF ~IsInstanceStr(first) \/ first.seq = <<>> THEN <<>>
        ELSE IF StartsWithHttp(first.seq) THEN first.seq
        ELSE IF seed_list = <<>> THEN <<>>
        ELSE LET parts == Split(seed_list[1], "/")
             IN  parts[1] \o <<"/", "/">> \o parts[3] \o first.seq

----------------------------------------------------------------------------
(* HTMLParser.unify_date_format: datetime.datetime.strptime(s, "%d.%m.%Y") *)

\* The decimal digits of Unicode (category Nd), which \d matches in a str pattern
\* and int() converts: DecimalDigits[v + 1] holds the digits of value v
DecimalDigits ==
    <<{"0", "U+0660", "۰", "U+06F0", "߀", "U+07C0", "U+0966", "০", "U+09E6", "U+0A66",
       "૦", "U+0AE6", "U+0B66", "௦", "U+0BE6", "U+0C66", "೦", "U+0CE6", "U+0D66", "෦",
       "U+0DE6", "U+0E50", "໐", "U+0ED0", "U+0F20", "U+1040", "႐", "U+1090", "០",
       "U+17E0", "U+1810", "U+1946", "᧐", "U+19D0", "᪀", "U+1A80", "᪐", "U+1A90",
       "U+1B50", "᮰", "U+1BB0", "U+1C40", "U+1C50", "U+A620", "꣐", "U+A8D0", "U+A900",
       "꧐", "U+A9D0", "꧰", "U+A9F0", "U+AA50", "꯰", "U+ABF0", "U+FF10", "U+104A0",
       "U+10D30", "U+11066", "U+110F0", "U+11136", "U+111D0", "U+112F0", "U+11450",
       "U+114D0", "U+11650", "U+116C0", "U+11730", "U+118E0", "U+11950", "U+11C50",
       "U+11D50", "U+11DA0", "U+16A60", "U+16AC0", "U+16B50", "U+1D7CE", "U+1D7D8",
       "U+1D7E2", "U+1D7EC", "U+1D7F6", "U+1E140", "U+1E2F0", "U+1E950", "U+1FBF0"},
      {"1", "U+0661", "۱", "U+06F1", "߁", "U+07C1", "U+0967", "১", "U+09E7", "U+0A67",
       "૧", "U+0AE7", "U+0B67", "௧", "U+0BE7", "U+0C67", "೧", "U+0CE7", "U+0D67", "෧",
       "U+0DE7", "U+0E51", "໑", "U+0ED1", "U+0F21", "U+1041", "႑", "U+1091", "១",
       "U+17E1", "U+1811", "U+1947", "᧑", "U+19D1", "᪁", "U+1A81", "᪑", "U+1A91",
       "U+1B51", "᮱", "U+1BB1", "U+1C41", "U+1C51", "U+A621", "꣑", "U+A8D1", "U+A901",
       "꧑", "U+A9D1", "꧱", "U+A9F1", "U+AA51", "꯱", "U+ABF1", "U+FF11", "U+104A1",
       "U+10D31", "U+11067", "U+110F1", "U+11137", "U+111D1", "U+112F1", "U+11451",
       "U+114D1", "U+11651", "U+116C1", "U+11731", "U+118E1", "U+11951", "U+11C51",
       "U+11D51", "U+11DA1", "U+16A61", "U+16AC1", "U+16B51", "U+1D7CF", "U+1D7D9",
       "U+1D7E3", "U+1D7ED", "U+1D7F7", "U+1E141", "U+1E2F1", "U+1E951", "U+1FBF1"},
      {"2", "U+0662", "۲", "U+06F2", "߂", "U+07C2", "U+0968", "২", "U+09E8", "U+0A68",
       "૨", "U+0AE8", "U+0B68", "௨", "U+0BE8", "U+0C68", "೨", "U+0CE8", "U+0D68", "෨",
       "U+0DE8", "U+0E52", "໒", "U+0ED2", "U+0F22", "U+1042", "႒", "U+1092", "២",
       "U+17E2", "U+1812", "U+1948", "᧒", "U+19D2", "᪂", "U+1A82", "᪒", "U+1A92",
       "U+1B52", "᮲", "U+1BB2", "U+1C42", "U+1C52", "U+A622", "꣒", "U+A8D2", "U+A902",
       "꧒", "U+A9D2", "꧲", "U+A9F2", "U+AA52", "꯲", "U+ABF2", "U+FF12", "U+104A2",
       "U+10D32", "U+11068", "U+110F2", "U+11138", "U+111D2", "U+112F2", "U+11452",
       "U+114D2", "U+11652", "U+116C2", "U+11732", "U+118E2", "U+11952", "U+11C52",
       "U+11D52", "U+11DA2", "U+16A62", "U+16AC2", "U+16B52", "U+1D7D0", "U+1D7DA",
       "U+1D7E4", "U+1D7EE", "U+1D7F8", "U+1E142", "U+1E2F2", "U+1E952", "U+1FBF2"},
      {"3", "U+0663", "۳", "U+06F3", "߃", "U+07C3", "U+0969", "৩", "U+09E9", "U+0A69",
       "૩", "U+0AE9", "U+0B69", "௩", "U+0BE9", "U+0C69", "೩", "U+0CE9", "U+0D69", "෩",
       "U+0DE9", "U+0E53", "໓", "U+0ED3", "U+0F23", "U+1043", "႓", "U+1093", "៣",
       "U+17E3", "U+1813", "U+1949", "᧓", "U+19D3", "᪃", "U+1A83", "᪓", "U+1A93",
       "U+1B53", "᮳", "U+1BB3", "U+1C43", "U+1C53", "U+A623", "꣓", "U+A8D3", "U+A903",
       "꧓", "U+A9D3", "꧳", "U+A9F3", "U+AA53", "꯳", "U+ABF3", "U+FF13", "U+104A3",
       "U+10D33", "U+11069", "U+110F3", "U+11139", "U+111D3", "U+112F3", "U+11453",
       "U+114D3", "U+11653", "U+116C3", "U+11733", "U+118E3", "U+11953", "U+11C53",
       "U+11D53", "U+11DA3", "U+16A63", "U+16AC3", "U+16B53", "U+1D7D1", "U+1D7DB",
       "U+1D7E5", "U+1D7EF", "U+1D7F9", "U+1E143", "U+1E2F3", "U+1E953", "U+1FBF3"},
      {"4", "U+0664", "۴", "U+06F4", "߄", "U+07C4", "U+096A", "৪", "U+09EA", "U+0A6A",
       "૪", "U+0AEA", "U+0B6A", "௪", "U+0BEA", "U+0C6A", "೪", "U+0CEA", "U+0D6A", "෪",
       "U+0DEA", "U+0E54", "໔", "U+0ED4", "U+0F24", "U+1044", "႔", "U+1094", "៤",
       "U+17E4", "U+1814", "U+194A", "᧔", "U+19D4", "᪄", "U+1A84", "᪔", "U+1A94",
       "U+1B54", "᮴", "U+1BB4", "U+1C44", "U+1C54", "U+A624", "꣔", "U+A8D4", "U+A904",
       "꧔", "U+A9D4", "꧴", "U+A9F4", "U+AA54", "꯴", "U+ABF4", "U+FF14", "U+104A4",
       "U+10D34", "U+1106A", "U+110F4", "U+1113A", "U+111D4", "U+112F4", "U+11454",
       "U+114D4", "U+11654", "U+116C4", "U+11734", "U+118E4", "U+11954", "U+11C54",
       "U+11D54", "U+11DA4", "U+16A64", "U+16AC4", "U+16B54", "U+1D7D2", "U+1D7DC",
       "U+1D7E6", "U+1D7F0", "U+1D7FA", "U+1E144", "U+1E2F4", "U+1E954", "U+1FBF4"},
      {"5", "U+0665", "۵", "U+06F5", "߅", "U+07C5", "U+096B", "৫", "U+09EB", "U+0A6B",
       "૫", "U+0AEB", "U+0B6B", "௫", "U+0BEB", "U+0C6B", "೫", "U+0CEB", "U+0D6B", "෫",
       "U+0DEB", "U+0E55", "໕", "U+0ED5", "U+0F25", "U+1045", "႕", "U+1095", "៥",
       "U+17E5", "U+1815", "U+194B", "᧕", "U+19D5", "᪅", "U+1A85", "᪕", "U+1A95",
       "U+1B55", "᮵", "U+1BB5", "U+1C45", "U+1C55", "U+A625", "꣕", "U+A8D5", "U+A905",
       "꧕", "U+A9D5", "꧵", "U+A9F5", "U+AA55", "꯵", "U+ABF5", "U+FF15", "U+104A5",
       "U+10D35", "U+1106B", "U+110F5", "U+1113B", "U+111D5", "U+112F5", "U+11455",
       "U+114D5", "U+11655", "U+116C5", "U+11735", "U+118E5", "U+11955", "U+11C55",
       "U+11D55", "U+11DA5", "U+16A65", "U+16AC5", "U+16B55", "U+1D7D3", "U+1D7DD",
       "U+1D7E7", "U+1D7F1", "U+1D7FB", "U+1E145", "U+1E2F5", "U+1E955", "U+1FBF5"},
      {"6", "U+0666", "۶", "U+06F6", "߆", "U+07C6", "U+096C", "৬", "U+09EC", "U+0A6C",
       "૬", "U+0AEC", "U+0B6C", "௬", "U+0BEC", "U+0C6C", "೬", "U+0CEC", "U+0D6C", "෬",
       "U+0DEC", "U+0E56", "໖", "U+0ED6", "U+0F26", "U+1046", "႖", "U+1096", "៦",
       "U+17E6", "U+1816", "U+194C", "᧖", "U+19D6", "᪆", "U+1A86", "᪖", "U+1A96",
       "U+1B56", "᮶", "U+1BB6", "U+1C46", "U+1C56", "U+A626", "꣖", "U+A8D6", "U+A906",
       "꧖", "U+A9D6", "꧶", "U+A9F6", "U+AA56", "꯶", "U+ABF6", "U+FF16", "U+104A6",
       "U+10D36", "U+1106C", "U+110F6", "U+1113C", "U+111D6", "U+112F6", "U+11456",
       "U+114D6", "U+11656", "U+116C6", "U+11736", "U+118E6", "U+11956", "U+11C56",
       "U+11D56", "U+11DA6", "U+16A66", "U+16AC6", "U+16B56", "U+1D7D4", "U+1D7DE",
       "U+1D7E8", "U+1D7F2", "U+1D7FC", "U+1E146", "U+1E2F6", "U+1E956", "U+1FBF6"},
      {"7", "U+0667", "۷", "U+06F7", "߇", "U+07C7", "U+096D", "৭", "U+09ED", "U+0A6D",
       "૭", "U+0AED", "U+0B6D", "௭", "U+0BED", "U+0C6D", "೭", "U+0CED", "U+0D6D", "෭",
       "U+0DED", "U+0E57", "໗", "U+0ED7", "U+0F27", "U+1047", "႗", "U+1097", "៧",
       "U+17E7", "U+1817", "U+194D", "᧗", "U+19D7", "᪇", "U+1A87", "᪗", "U+1A97",
       "U+1B57", "᮷", "U+1BB7", "U+1C47", "U+1C57", "U+A627", "꣗", "U+A8D7", "U+A907",
       "꧗", "U+A9D7", "꧷", "U+A9F7", "U+AA57", "꯷", "U+ABF7", "U+FF17", "U+104A7",
       "U+10D37", "U+1106D", "U+110F7", "U+1113D", "U+111D7", "U+112F7", "U+11457",
       "U+114D7", "U+11657", "U+116C7", "U+11737", "U+118E7", "U+11957", "U+11C57",
       "U+11D57", "U+11DA7", "U+16A67", "U+16AC7", "U+16B57", "U+1D7D5", "U+1D7DF",
       "U+1D7E9", "U+1D7F3", "U+1D7FD", "U+1E147", "U+1E2F7", "U+1E957", "U+1FBF7"},
      {"8", "U+0668", "۸", "U+06F8", "߈", "U+07C8", "U+096E", "৮", "U+09EE", "U+0A6E",
       "૮", "U+0AEE", "U+0B6E", "௮", "U+0BEE", "U+0C6E", "೮", "U+0CEE", "U+0D6E", "෮",
       "U+0DEE", "U+0E58", "໘", "U+0ED8", "U+0F28", "U+1048", "႘", "U+1098", "៨",
       "U+17E8", "U+1818", "U+194E", "᧘", "U+19D8", "᪈", "U+1A88", "᪘", "U+1A98",
       "U+1B58", "᮸", "U+1BB8", "U+1C48", "U+1C58", "U+A628", "꣘", "U+A8D8", "U+A908",
       "꧘", "U+A9D8", "꧸", "U+A9F8", "U+AA58", "꯸", "U+ABF8", "U+FF18", "U+104A8",
       "U+10D38", "U+1106E", "U+110F8", "U+1113E", "U+111D8", "U+112F8", "U+11458",
       "U+114D8", "U+11658", "U+116C8", "U+11738", "U+118E8", "U+11958", "U+11C58",
       "U+11D58", "U+11DA8", "U+16A68", "U+16AC8", "U+16B58", "U+1D7D6", "U+1D7E0",
       "U+1D7EA", "U+1D7F4", "U+1D7FE", "U+1E148", "U+1E2F8", "U+1E958", "U+1FBF8"},
      {"9", "U+0669", "۹", "U+06F9", "߉", "U+07C9", "U+096F", "৯", "U+09EF", "U+0A6F",
       "૯", "U+0AEF", "U+0B6F", "௯", "U+0BEF", "U+0C6F", "೯", "U+0CEF", "U+0D6F", "෯",
       "U+0DEF", "U+0E59", "໙", "U+0ED9", "U+0F29", "U+1049", "႙", "U+1099", "៩",
       "U+17E9", "U+1819", "U+194F", "᧙", "U+19D9", "᪉", "U+1A89", "᪙", "U+1A99",
       "U+1B59", "᮹", "U+1BB9", "U+1C49", "U+1C59", "U+A629", "꣙", "U+A8D9", "U+A909",
       "꧙", "U+A9D9", "꧹", "U+A9F9", "U+AA59", "꯹", "U+ABF9", "U+FF19", "U+104A9",
       "U+10D39", "U+1106F", "U+110F9", "U+1113F", "U+111D9", "U+112F9", "U+11459",
       "U+114D9", "U+11659", "U+116C9", "U+11739", "U+118E9", "U+11959", "U+11C59",
       "U+11D59", "U+11DA9", "U+16A69", "U+16AC9", "U+16B59", "U+1D7D7", "U+1D7E1",
       "U+1D7EB", "U+1D7F5", "U+1D7FF", "U+1E149", "U+1E2F9", "U+1E959", "U+1FBF9"}>>

\* \d
IsDigit(c) == \E v \in DOMAIN DecimalDigits : c \in DecimalDigits[v]

DigitVal(c) == (CHOOSE v \in DOMAIN DecimalDigits : c \in DecimalDigits[v]) - 1

\* [1-9]
IsOneToNine(c) == c \in {"1", "2", "3", "4", "5", "6", "7", "8", "9"}

At(s, i) == IF i \in DOMAIN s THEN s[i] ELSE ""

\* The lengths, in the order the regular expression tries them, of the matches of
\* %d at position i: 3[0-1] | [1-2]\d | 0[1-9] | [1-9] | " "[1-9]
DayMatches(s, i) ==
    LET a == At(s, i)
        b == At(s, i + 1)
    IN  (IF a = "3" /\ b \in {"0", "1"} THEN <<2>> ELSE <<>>)
        \o (IF a \in {"1", "2"} /\ IsDigit(b) THEN <<2>> ELSE <<>>)
        \o (IF a = "0" /\ IsOneToNine(b) THEN <<2>> ELSE <<>>)
        \o (IF IsOneToNine(a) THEN <<1>> ELSE <<>>)
        \o (IF a = " " /\ IsOneToNine(b) THEN <<2>> ELSE <<>>)

\* %m: 1[0-2] | 0[1-9] | [1-9]
MonthMatches(s, i) ==
    LET a == At(s, i)
        b == At(s, i + 1)
    IN  (IF a = "1" /\ b \in {"0", "1", "2"} THEN <<2>> ELSE <<>>)
        \o (IF a = "0" /\ IsOneToNine(b) THEN <<2>> ELSE <<>>)
        \o (IF IsOneToNine(a) THEN <<1>> ELSE <<>>)

\* %Y: \d\d\d\d
YearMatches(s, i) == \A k \in 0..3 : IsDigit(At(s, i + k))

\* The match of the whole pattern from the start of s, found by backtracking over
\* the alternatives in order: <<day length, month length>>, or <<>> when none.
DateMatch(s) ==
    LET ds == DayMatches(s, 1)
        ok(dl, ml) == /\ At(s, 1 + dl) = "."
                      /\ At(s, 2 + dl + ml) = "."
                      /\ YearMatches(s, 3 + dl + ml)
        cands == [k \in DOMAIN ds |->
                    LET ms == MonthMatches(s, 2 + ds[k])
                        good == {j \in DOMAIN ms : ok(ds[k], ms[j])}
                    IN  IF good = {} THEN <<>>
                        ELSE <<ds[k], ms[CHOOSE j \in good : \A j2 \in good : j <= j2]>>]
        hits == {k \in DOMAIN ds : cands[k] # <<>>}
    IN  IF hits = {} THEN <<>>
        ELSE cands[CHOOSE k \in hits : \A k2 \in hits : k <= k2]

\* int() of a matched group: decimal digits, surrounding whitespace ignored
RECURSIVE ToInt(_)
ToInt(s) ==
    LET t == Strip(s)
    IN  IF t = <<>> THEN 0
        ELSE 10 * ToInt(SubSeq(t, 1, Len(t) - 1)) + DigitVal(t[Len(t)])

IsLeap(y) == y % 4 = 0 /\ (y % 100 # 0 \/ y % 400 = 0)

DaysInMonth(y, m) ==
    IF m = 2 THEN (IF IsLeap(y) THEN 29 ELSE 28)
    ELSE IF m \in {4, 6, 9, 11} THEN 30 ELSE 31

NoDate == [year |-> 0, month |-> 0, day |-> 0]

\* datetime(year, month, day) of the matched groups; ValueError when the match
\* leaves text unconverted or the groups name no calendar date
DateOfGroups(date_str, end, d, mo, y) ==
    IF Len(date_str) # end THEN [ok |-> FALSE, date |-> NoDate]
    ELSE IF y < 1 \/ d > DaysInMonth(y, mo) THEN [ok |-> FALSE, date |-> NoDate]
    ELSE [ok |-> TRUE, date |-> [year |-> y, month |-> mo, day |-> d]]

\* the groups of a match whose day takes dl characters and whose month takes ml
DateOfMatch(date_str, dl, ml) ==
    DateOfGroups(date_str, 6 + dl + ml,
                 ToInt(SubSeq(date_str, 1, dl)),
                 ToInt(SubSeq(date_str, 2 + dl, 1 + dl + ml)),
                 ToInt(SubSeq(date_str, 3 + dl + ml, 6 + dl + ml)))

DateOfMatchOrError(date_str, m) ==
    IF m = <<>> THEN [ok |-> FALSE, date |-> NoDate]
    ELSE DateOfMatch(date_str, m[1], m[2])

\* [ok |-> the string parsed, date |-> the date]; ok = FALSE stands for ValueError
UnifyDateFormat(date_str) == DateOfMatchOrError(date_str, DateMatch(date_str))

----------------------------------------------------------------------------
(* Inputs: the configuration file and what the network answers *)

S1 == HTTP \o <<"a", "/", "l">>

S2 == HTTPS \o <<"b", "/", "l">>

FTP == <<"f", "t", "p", ":", "/", "/", "a">>

SeedUrlsPool ==
    {PyList(<<>>),
     PyList(<<PyStr(S1)>>),
     PyList(<<PyStr(S2), PyStr(S1)>>),
     PyList(<<PyStr(S1), PyStr(S2), PyStr(S2)>>),
     PyList(<<PyStr(FTP)>>),
     PyList(<<PyStr(S1), PyStr(FTP)>>),
     PyList(<<PyStr(S1), PyInt(5)>>),
     PyStr(S1),
     PyNone}

TotalArticlesPool ==
    {PyInt(0), PyInt(-1), PyInt(151), PyStr(<<"a", "b", "c">>),
     PyInt(1), PyInt(2), PyInt(150)}

HeadersPool == {PyDict, PyList(<<>>)}

EncodingPool == {PyStr(<<"u", "t", "f", "-", "8">>), PyInt(8)}

TimeoutPool == {PyInt(5), PyInt(0), PyInt(60)}

VerifyPool == {PyBool(TRUE), PyInt(1)}

HeadlessPool == {PyBool(FALSE), PyNone}

ConfigFiles ==
    [seed_urls : SeedUrlsPool, total_articles : TotalArticlesPool,
     headers : HeadersPool, encoding : EncodingPool, timeout : TimeoutPool,
     should_verify_certificate : VerifyPool, headless_mode : HeadlessPool]

\* An h3 element of a listing: whether it holds an anchor with an href, and the href
NoAnchor == [anchor |-> FALSE, href |-> PyNone]

Anchor(h) == [anchor |-> TRUE, href |-> PyStr(h)]

Headings ==
    {NoAnchor, Anchor(<<>>), Anchor(<<"/", "n", "1">>), Anchor(<<"/", "n", "2">>),
     Anchor(HTTP \o <<"a", "/", "n", "1">>)}

\* An article page: its first <time> element, how many links of the container chain
\* (articleBody div, content field div, value div) resolve, and the <p> elements.
\* An element is given by its text nodes, in document order.
NoTime == [present |-> FALSE, strings |-> <<>>]

Time(strings) == [present |-> TRUE, strings |-> strings]

TimeTags ==
    {NoTime,
     Time(<< <<"0", "5", ".", "0", "3", ".", "2", "0", "2", "1">> >>),
     Time(<< <<"U+00A0", " ", "0", "5", ".", "0", "3", ".", "2", "0", "2", "1",
              "\r", "\n">> >>),
     Time(<< <<"0", "5", ".", "0", "3", ".">>,
            <<" ">>, <<"2", "0", "2", "1">> >>),
     Time(<< <<"5", ".", "3", ".", "2", "0", "2", "1">> >>),
     Time(<< <<"1", "U+0665", ".", "0", "3", ".",
              "U+0662", "U+0660", "U+0662", "U+0661">> >>),
     Time(<< <<"U+0660", "U+0665", ".", "0", "3", ".", "2", "0", "2", "1">> >>),
     Time(<< <<"2", "0", "2", "1", "-", "0", "3", "-", "0", "5">> >>),
     Time(<< <<"3", "1", ".", "0", "2", ".", "2", "0", "2", "1">> >>),
     Time(<< <<"0", "5", ".", "0", "3", ".", "2", "1">> >>)}

Bodies ==
    {[chain |-> 0, paragraphs |-> <<>>],
     [chain |-> 3,
      paragraphs |-> << << <<"A">> >>, << <<"U+00A0">> >>,
                        << <<"H", "e", "l", "l", "o", " ">>, <<"b", "i", "g">>,
                          <<" ", "w", "o", "r", "l", "d">> >>,
                        << <<" ">>, <<"\r", "\n", "B", "\t">> >> >>]}

ArticlePages == [time : TimeTags, body : Bodies]

ErrorPage == [time |-> NoTime, body |-> [chain |-> 0, paragraphs |-> <<>>]]

\* The outcomes of requests.get: an exception (transport), a response that is not
\* ok (http_error), an ok response; h3 and page are what its markup holds
NoResponse == [status |-> "none", h3 |-> <<>>, page |-> ErrorPage]

ListingResponses ==
    [status : {"transport"}, h3 : {<<>>}, page : {ErrorPage}]
    \cup [status : {"http_error"}, h3 : {<<>>, <<Anchor(<<"/", "n", "1">>)>>},
          page : {ErrorPage}]
    \cup [status : {"ok"}, h3 : SeqsUpTo(Headings, MaxHeadings), page : {ErrorPage}]

ArticleResponses ==
    [status : {"transport", "http_error"}, h3 : {<<>>}, page : {ErrorPage}]
    \cup [status : {"ok"}, h3 : {<<>>}, page : ArticlePages]

\* response.ok
ResponseOk(resp) == resp.status = "ok"

----------------------------------------------------------------------------
(* I/O operations, as recorded in trace *)

Event(op, by, url, id) == [op |-> op, by |-> by, url |-> url, id |-> id]

\* make_request: one GET
Get(by, url) == Event("GET", by, url, 0)

----------------------------------------------------------------------------
(* HTMLParser *)

\* HTMLParser.__init__: a fresh Article with no text and no date yet
NewArticle(full_url, article_id) ==
    [url |-> full_url, id |-> article_id, text |-> <<>>, date |-> NoDate]

\* element.get_text(strip=True): every text node of the element stripped, the
\* empty ones dropped, the rest joined with ''
RECURSIVE GetText(_)
GetText(strings) ==
    IF strings = <<>> THEN <<>>
    ELSE Strip(Head(strings)) \o GetText(Tail(strings))

\* _fill_article_with_text: "" unless the whole container chain resolves, else the
\* non-empty texts of the paragraphs joined by newlines
FillArticleWithText(page) ==
    IF page.body.chain < 3 THEN <<>>
    ELSE LET texts == [i \in DOMAIN page.body.paragraphs |->
                          GetText(page.body.paragraphs[i])]
         IN  Join(<<"\n">>, SelectSeq(texts, LAMBDA t : t # <<>>))

RawDate_DefaultsToEpoch(page) ==
    IF page.time.present THEN GetText(page.time.strings)
    ELSE <<"0", "1", ".", "0", "1", ".", "1", "9", "7", "0">>

\* line 353: the text of the first <time> element, '' when there is none
RawDate(page) == IF page.time.present THEN GetText(page.time.strings) ELSE <<>>

Parse_IgnoresStatus(full_url, article_id, resp) ==
    IF resp.status = "transport"
    THEN [raised |-> "RequestException", souped |-> FALSE,
          article |-> NewArticle(full_url, article_id)]
    ELSE LET d == UnifyDateFormat(RawDate(resp.page))
             filled == [NewArticle(full_url, article_id) EXCEPT
                            !.text = FillArticleWithText(resp.page)]
         IN  IF d.ok
             THEN [raised |-> "none", souped |-> TRUE,
                   article |-> [filled EXCEPT !.date = d.date]]
             ELSE [raised |-> "ValueError", souped |-> TRUE, article |-> filled]

\* HTMLParser(full_url, article_id, config).parse() given what make_request does:
\* the exception it ends with (or "none"), whether the markup was parsed, the article
Parse(full_url, article_id, resp) ==
    IF resp.status = "transport"
    THEN [raised |-> "RequestException", souped |-> FALSE,
          article |-> NewArticle(full_url, article_id)]
    ELSE IF ResponseOk(resp)
    THEN LET d == UnifyDateFormat(RawDate(resp.page))
             filled == [NewArticle(full_url, article_id) EXCEPT
                            !.text = FillArticleWithText(resp.page)]
         IN  IF d.ok
             THEN [raised |-> "none", souped |-> TRUE,
                   article |-> [filled EXCEPT !.date = d.date]]
             ELSE [raised |-> "ValueError", souped |-> TRUE, article |-> filled]
    ELSE [raised |-> "none", souped |-> FALSE,
          article |-> [NewArticle(full_url, article_id) EXCEPT !.text = <<>>]]

----------------------------------------------------------------------------
(* Crawler.find_articles *)

CapReached_OffByOne(found, num_articles) == Len(found) > num_articles

\* line 260: len(self.urls) >= self.config.get_num_articles()
CapReached(found, num_articles) == Len(found) >= num_articles

\* lines 263-269: the urls after the body of the inner loop ran on one h3 element
VisitHeader(found, header, seed_list) ==
    IF ~header.anchor THEN found
    ELSE LET url == ExtractUrl(header.href, seed_list)
         IN  IF url # <<>> /\ url \notin Range(found) THEN Append(found, url) ELSE found

----------------------------------------------------------------------------
(* main *)

ArticleIdAt_FromZero(i) == i - 1

\* line 430: enumerate(crawler.urls, 1) numbers the i-th url (from 1) i
ArticleIdAt(i) == i

AfterParseRaised_SkipArticle(i) == [pc |-> "articles", idx |-> i + 1]

\* lines 430-435: nothing catches what parser.parse() raises, so main() ends there
AfterParseRaised(i) == [pc |-> "failed", idx |-> i]

Init ==
    /\ pc = "prepare"
    /\ assets \in {"absent", "old"}
    /\ config \in ConfigFiles
    /\ urls = <<>>
    /\ seedIdx = 1
    /\ headers = <<>>
    /\ idx = 1
    /\ saved = <<>>
    /\ trace = <<>>
    /\ lastFetch = [what |-> "none", resp |-> NoResponse, souped |-> FALSE,
                    raised |-> "none"]
    /\ error = "none"

\* prepare_environment(ASSETS_PATH): remove the folder if it exists, create it
PrepareEnvironment ==
    /\ pc = "prepare"
    /\ trace' = trace
                \o (IF assets # "absent"
                    THEN <<Event("rmtree", "prepare_environment", <<>>, 0)>> ELSE <<>>)
                \o <<Event("mkdir", "prepare_environment", <<>>, 0)>>
    /\ assets' = "fresh"
    /\ pc' = "config"
    /\ UNCHANGED <<config, urls, seedIdx, headers, idx, saved, lastFetch, error>>

\* Config(CRAWLER_CONFIG_PATH) and Crawler(config): read the file, validate it
ConfigInit ==
    /\ pc = "config"
    /\ trace' = Append(trace, Event("read_config", "Config", <<>>, 0))
    /\ LET err == ValidateConfigContent(config)
       IN  IF err # "ok"
           THEN /\ error' = err
                /\ pc' = "failed"
           ELSE /\ error' = error
                /\ pc' = "seeds"
    /\ urls' = <<>>
    /\ seedIdx' = 1
    /\ UNCHANGED <<assets, config, headers, idx, saved, lastFetch>>

\* lines 252-257: the outer loop takes the next seed and requests it
FindArticlesFetchSeed ==
    /\ pc = "seeds"
    /\ seedIdx <= Len(GetSeedUrls(config))
    /\ \E resp \in ListingResponses :
        /\ trace' = Append(trace, Get("find_articles", GetSeedUrls(config)[seedIdx]))
        /\ lastFetch' = [what |-> "seed", resp |-> resp,
                         souped |-> (resp.status # "transport" /\ ResponseOk(resp)),
                         raised |-> IF resp.status = "transport"
                                    THEN "RequestException" ELSE "none"]
        /\ IF resp.status = "transport"
           THEN /\ error' = "RequestException"
                /\ pc' = "failed"
                /\ UNCHANGED <<seedIdx, headers>>
           ELSE IF ~ResponseOk(resp)
           THEN /\ seedIdx' = seedIdx + 1
                /\ UNCHANGED <<pc, headers, error>>
           ELSE /\ headers' = resp.h3
                /\ pc' = "headers"
                /\ UNCHANGED <<seedIdx, error>>
    /\ UNCHANGED <<assets, config, urls, idx, saved>>

\* lines 259-269: one round of the inner loop, or its end
FindArticlesHeader ==
    /\ pc = "headers"
    /\ IF headers = <<>> \/ CapReached(urls, GetNumArticles(config))
       THEN /\ headers' = <<>>
            /\ seedIdx' = seedIdx + 1
            /\ pc' = "seeds"
            /\ urls' = urls
       ELSE /\ urls' = VisitHeader(urls, Head(headers), GetSeedUrls(config))
            /\ headers' = Tail(headers)
            /\ UNCHANGED <<pc, seedIdx>>
    /\ UNCHANGED <<assets, config, idx, saved, trace, lastFetch, error>>

\* the outer loop is out of seeds: find_articles returns
FindArticlesReturn ==
    /\ pc = "seeds"
    /\ seedIdx > Len(GetSeedUrls(config))
    /\ pc' = "articles"
    /\ idx' = 1
    /\ UNCHANGED <<assets, config, urls, seedIdx, headers, saved, trace, lastFetch, error>>

\* lines 430-435: one round of the loop of main(): parse the url, hand the article over
MainArticle ==
    /\ pc = "articles"
    /\ idx <= Len(urls)
    /\ \E resp \in ArticleResponses :
        LET r == Parse(urls[idx], ArticleIdAt(idx), resp)
            get == Get("parse", urls[idx])
        IN  /\ lastFetch' = [what |-> "article", resp |-> resp, souped |-> r.souped,
                             raised |-> r.raised]
            /\ IF r.raised # "none"
               THEN /\ trace' = Append(trace, get)
                    /\ pc' = AfterParseRaised(idx).pc
                    /\ idx' = AfterParseRaised(idx).idx
                    /\ error' = IF AfterParseRaised(idx).pc = "failed"
                                THEN r.raised ELSE error
                    /\ saved' = saved
               ELSE /\ trace' = trace \o <<get,
                                    Event("to_raw", "main", r.article.url, r.article.id),
                                    Event("to_meta", "main", r.article.url, r.article.id)>>
                    /\ saved' = Append(saved, r.article)
                    /\ idx' = idx + 1
                    /\ UNCHANGED <<pc, error>>
    /\ UNCHANGED <<assets, config, urls, seedIdx, headers>>

\* the loop of main() is out of urls
MainReturn ==
    /\ pc = "articles"
    /\ idx > Len(urls)
    /\ pc' = "done"
    /\ UNCHANGED <<assets, config, urls, seedIdx, headers, idx, saved, trace, lastFetch, error>>

Next ==
    \/ PrepareEnvironment
    \/ ConfigInit
    \/ FindArticlesFetchSeed
    \/ FindArticlesHeader
    \/ FindArticlesReturn
    \/ MainArticle
    \/ MainReturn

Spec == Init /\ [][Next]_vars

----------------------------------------------------------------------------
(* Properties *)

\* Config(...) has run
Configured == pc \notin {"prepare", "config"}

\* Config(...) has run and raised nothing, so the Crawler exists
CrawlerBuilt == Configured /\ error \notin ConfigErrors

IsGet(e, by) == e.op = "GET" /\ e.by = by

Persisted == SelectSeq(trace, LAMBDA e : e.op \in {"to_raw", "to_meta"})

\* C1: while and after find_articles runs, urls holds at most total_articles
\* entries and no string twice.
C1_UrlsCappedAndDistinct ==
    CrawlerBuilt =>
        /\ Len(urls) <= GetNumArticles(config)
        /\ \A i, j \in DOMAIN urls : i # j => urls[i] # urls[j]

\* The cap is reached while the listing still offers a link that is not in urls.
C1_Witness ==
    /\ pc = "headers"
    /\ headers # <<>>
    /\ Len(urls) = GetNumArticles(config)
    /\ Head(headers).anchor
    /\ ExtractUrl(Head(headers).href, GetSeedUrls(config)) # <<>>
    /\ ExtractUrl(Head(headers).href, GetSeedUrls(config)) \notin Range(urls)

\* C2: once urls holds total_articles entries, find_articles requests no further
\* seed.
C2_NoSeedFetchedAfterCap ==
    [][(pc \in {"seeds", "headers"} /\ Len(urls) >= GetNumArticles(config))
        => ~(Len(trace') > Len(trace) /\ IsGet(trace'[Len(trace')], "find_articles"))]_vars

\* C3: a transport failure on a seed skips that seed only: discovery goes on and
\* nothing is raised.
C3_TransportFailureSkipsSeed ==
    (lastFetch.what = "seed" /\ lastFetch.resp.status = "transport")
        => (pc = "seeds" /\ error = "none")

\* The invariants of a run configuration: non-empty list of http(s) seeds, 1..150
\* articles, a headers mapping, a non-empty encoding, 0 < timeout < 60, two booleans.
RunConfigInvariant(c) ==
    /\ c.seed_urls.kind = "list"
    /\ c.seed_urls.seq # <<>>
    /\ \A i \in DOMAIN c.seed_urls.seq :
          c.seed_urls.seq[i].kind = "str" /\ StartsWithHttp(c.seed_urls.seq[i].seq)
    /\ c.total_articles.kind = "int"
    /\ c.total_articles.num \in 1..150
    /\ c.headers.kind = "dict"
    /\ c.encoding.kind = "str"
    /\ c.encoding.seq # <<>>
    /\ c.timeout.kind = "int"
    /\ c.timeout.num \in 1..59
    /\ c.should_verify_certificate.kind = "bool"
    /\ c.headless_mode.kind = "bool"

\* C4: a run whose configuration breaks an invariant ends with a configuration
\* error, and has done no I/O but reading the configuration file.
C4_ConfigErrorBeforeAnyIO ==
    (~RunConfigInvariant(config) /\ pc \in {"done", "failed"})
        => /\ error \in ConfigErrors
           /\ \A i \in DOMAIN trace : trace[i].op = "read_config"

\* every field but total_articles passes its check
OtherFieldsValid(c) ==
    /\ SeedUrlsError(c.seed_urls) = "ok"
    /\ HeadersError(c.headers) = "ok"
    /\ EncodingError(c.encoding) = "ok"
    /\ TimeoutError(c.timeout) = "ok"
    /\ VerifyError(c.should_verify_certificate, c.headless_mode) = "ok"

BadCounts == {PyInt(0), PyInt(-1), PyInt(151), PyStr(<<"a", "b", "c">>)}

GoodCounts == {PyInt(1), PyInt(150)}

\* C5 as stated: one and the same error kind for 0, -1, 151 and "abc"; no error
\* for 1 and 150.
C5_OneArticleCountErrorKind ==
    (Configured /\ OtherFieldsValid(config)) =>
        /\ \E kind \in ConfigErrors : \A v \in BadCounts :
              ValidateConfigContent([config EXCEPT !.total_articles = v]) = kind
        /\ config.total_articles \in BadCounts => error \in ConfigErrors
        /\ config.total_articles \in GoodCounts => error \notin ConfigErrors

\* C5 as the code has it: 0, -1 and "abc" raise IncorrectNumberOfArticlesError,
\* 151 raises NumberOfArticlesOutOfRangeError, 1 and 150 raise nothing.
C5_TwoArticleCountErrorKinds ==
    (Configured /\ OtherFieldsValid(config)) =>
        /\ config.total_articles \in {PyInt(0), PyInt(-1), PyStr(<<"a", "b", "c">>)}
              => error = "IncorrectNumberOfArticlesError"
        /\ config.total_articles = PyInt(151)
              => error = "NumberOfArticlesOutOfRangeError"
        /\ config.total_articles \in GoodCounts => error \notin ConfigErrors

C5_Witness ==
    /\ Configured
    /\ OtherFieldsValid(config)
    /\ config.total_articles = PyInt(151)
    /\ error = "NumberOfArticlesOutOfRangeError"

\* every field but seed_urls passes its check
FieldsAfterSeedsValid(c) ==
    /\ NumArticlesError(c.total_articles) = "ok"
    /\ HeadersError(c.headers) = "ok"
    /\ EncodingError(c.encoding) = "ok"
    /\ TimeoutError(c.timeout) = "ok"
    /\ VerifyError(c.should_verify_certificate, c.headless_mode) = "ok"

\* a non-empty list of strings that start with http:// or https://
SeedsWellFormed(v) ==
    /\ v.kind = "list"
    /\ v.seq # <<>>
    /\ \A i \in DOMAIN v.seq : v.seq[i].kind = "str" /\ StartsWithHttp(v.seq[i].seq)

\* C6: validation passes only for a non-empty list of http(s) seeds and raises
\* IncorrectSeedURLError for every other seed list, the empty one included.
C6_ValidatedSeedsNonEmpty ==
    /\ CrawlerBuilt => SeedsWellFormed(config.seed_urls)
    /\ (Configured /\ FieldsAfterSeedsValid(config) /\ ~SeedsWellFormed(config.seed_urls))
          => error = "IncorrectSeedURLError"

\* C7: the articles are handed to to_raw and then to_meta with ids 1, 2, 3, ...
\* in that order, article i being that of the i-th url, and no seed is requested
\* after an article was.
C7_RecordsInIdOrder ==
    /\ Len(Persisted) = 2 * Len(saved)
    /\ \A i \in DOMAIN saved :
          /\ i \in DOMAIN urls
          /\ saved[i].id = i
          /\ saved[i].url = urls[i]
          /\ Persisted[2 * i - 1] = Event("to_raw", "main", urls[i], i)
          /\ Persisted[2 * i] = Event("to_meta", "main", urls[i], i)
    /\ \A i, j \in DOMAIN trace :
          (i < j /\ IsGet(trace[i], "parse")) => ~IsGet(trace[j], "find_articles")

C7_Witness ==
    /\ pc = "done"
    /\ Len(saved) >= 2
    /\ \E i \in DOMAIN trace : IsGet(trace[i], "find_articles")

\* the article whose page was just fetched is lost: parse raised ValueError, the run
\* failed on it, and persistence has the articles before it only
ArticleAborted ==
    /\ lastFetch.raised = "ValueError"
    /\ pc = "failed"
    /\ error = "ValueError"
    /\ Len(saved) = idx - 1
    /\ \A i \in DOMAIN saved : saved[i].url # urls[idx]
    /\ \A i \in DOMAIN Persisted : Persisted[i].id # idx

\* dd.mm.yyyy
StrictDateShape(s) ==
    /\ Len(s) = 10
    /\ \A i \in {1, 2, 4, 5, 7, 8, 9, 10} : IsDigit(s[i])
    /\ s[3] = "." /\ s[6] = "."

\* one or two digits, a dot, one or two digits, a dot, four digits
LooseDateShape(s) ==
    LET parts == Split(s, ".")
        digits(t) == \A i \in DOMAIN t : IsDigit(t[i])
    IN  /\ Len(parts) = 3
        /\ Len(parts[1]) \in {1, 2} /\ digits(parts[1])
        /\ Len(parts[2]) \in {1, 2} /\ digits(parts[2])
        /\ Len(parts[3]) = 4 /\ digits(parts[3])

FetchedArticlePage == lastFetch.what = "article" /\ lastFetch.resp.status = "ok"

\* C8 as stated: an article page without a time element, or whose time text is not
\* dd.mm.yyyy, makes parse fail and leaves no record of that article.
C8_StrictDateOrAbort ==
    (FetchedArticlePage
        /\ (~lastFetch.resp.page.time.present
            \/ ~StrictDateShape(GetText(lastFetch.resp.page.time.strings))))
        => ArticleAborted

\* C8 as the code has it: the same for a page without a time element or whose time
\* text is not d(d).m(m).yyyy.
C8_LooseDateOrAbort ==
    (FetchedArticlePage
        /\ (~lastFetch.resp.page.time.present
            \/ ~LooseDateShape(GetText(lastFetch.resp.page.time.strings))))
        => ArticleAborted

\* A page with its whole body chain but no time element ended the run.
C8_Witness ==
    /\ FetchedArticlePage
    /\ ~lastFetch.resp.page.time.present
    /\ lastFetch.resp.page.body.chain = 3
    /\ ArticleAborted

\* C9: a response that is not ok raises nothing and is not parsed; for a seed,
\* urls stays as it is and the next seed is up; for an article, a record with
\* empty text goes to to_raw and to_meta under its id.
C9_HttpErrorNeverRaises ==
    [][(pc \in {"seeds", "articles"} /\ trace' # trace
            /\ lastFetch'.resp.status = "http_error")
        => /\ lastFetch'.raised = "none"
           /\ error' = "none"
           /\ ~lastFetch'.souped
           /\ pc = "seeds" =>
                 /\ urls' = urls
                 /\ seedIdx' = seedIdx + 1
                 /\ pc' = "seeds"
           /\ pc = "articles" =>
                 /\ saved' = Append(saved, [url |-> urls[idx], id |-> idx,
                                            text |-> <<>>, date |-> NoDate])
                 /\ trace' = trace \o <<Get("parse", urls[idx]),
                                        Event("to_raw", "main", urls[idx], idx),
                                        Event("to_meta", "main", urls[idx], idx)>>
                 /\ idx' = idx + 1]_vars

C9_Witness ==
    /\ lastFetch.what = "article"
    /\ lastFetch.resp.status = "http_error"
    /\ saved # <<>>
    /\ saved[Len(saved)].text = <<>>
    /\ saved[Len(saved)].date = NoDate
    /\ idx = Len(saved) + 1

\* C10: when the extraction of article k raises, the run ends there: the articles
\* before k are with persistence, k and the ones after it are not, and no url
\* after the k-th was requested.
C10_FailureEndsRun ==
    (lastFetch.what = "article" /\ lastFetch.raised # "none") =>
        /\ pc = "failed"
        /\ error = lastFetch.raised
        /\ ~ENABLED Next
        /\ Len(saved) = idx - 1
        /\ \A i \in DOMAIN saved : saved[i].id = i
        /\ Cardinality({i \in DOMAIN trace : IsGet(trace[i], "parse")}) = idx
        /\ trace[Len(trace)] = Get("parse", urls[idx])

C10_Witness ==
    /\ lastFetch.what = "article"
    /\ lastFetch.raised # "none"
    /\ pc = "failed"
    /\ idx = 2
    /\ Len(saved) = 1
    /\ Len(urls) = 3

====
